---------------------------- MODULE Spec2Model ----------------------------
(***************************************************************************)
(* Model of the CoveoSearchPrototype component (coveo-ai-citation).        *)
(*                                                                         *)
(* Two iterations of the component are modelled:                           *)
(*   version = "perCitation" : src/src/components/CoveoSearchPrototype.tsx *)
(*   version = "global"      : src/unnamed/part_000                        *)
(*                                                                         *)
(* Strings of the program are sequences of one-character strings, so that  *)
(* slicing, scanning and substring search are computed character by        *)
(* character.  The full-width brackets U+3010 / U+3011 of the citation     *)
(* marker are the characters FWOpen / FWClose.  Indices are 0-based as in  *)
(* the source; At(s, i) reads the character at 0-based index i.            *)
(*                                                                         *)
(* A value that may be absent (null, undefined, false | number) is a       *)
(* sequence of length 0 (absent) or 1 (present).                           *)
(***************************************************************************)
EXTENDS Integers, Sequences, FiniteSets

VARIABLES
    \* ---- the mounted component ----
    version,        \* which iteration of the component is mounted
    mockData,       \* the static payloads of ../mock-data/*.json, by file
    query,          \* useState('')
    answer,         \* useState<AnswerData | null>(null): <<>> or <<data>>
    showSources,    \* perCitation: useState<number | false>(false), <<>> or <<n>>
                    \* global:      useState(false), a BOOLEAN
    activeTab,      \* perCitation only: useState("perplexity")
    pending,        \* dynamic imports awaited by running handleSearch calls
    lastOp,         \* history: the handler that ran last, with its input
    before,         \* history: the UI state fields before that handler ran
    \* ---- the pure functions, applied to drawn inputs ----
    pc,             \* "ui", or "start" / "done" of a pure-function run
    processedAnswer,\* input of the citation segmenter
    segments,       \* its result
    sources,        \* input of the source resolver: the source list
    id,             \* input of the source resolver: the citation id string
    src,            \* its result: <<>> (undefined) or <<source>>
    rendered,       \* result of segments.map: what each segment renders to
    slug,           \* the slug handleSearch derives from the drawn query
    mockFile        \* the file its fragment chain selects, <<>> for none

vars == <<version, mockData, query, answer, showSources, activeTab, pending,
          lastOp, before, pc, processedAnswer, segments, sources, id, src,
          rendered, slug, mockFile>>

uiVars == <<version, mockData, query, answer, showSources, activeTab, pending,
            lastOp, before>>

pureVars == <<processedAnswer, segments, sources, id, src, rendered, slug,
              mockFile>>

----------------------------------------------------------------------------
(* Bounds *)

MaxLen == 6          \* longest answer string drawn for the segmenter
MaxSources == 3      \* longest source list drawn for the resolver
MaxIdLen == 2        \* longest citation id string drawn for the resolver
MaxInFlight == 2     \* most dynamic imports awaited at once
MaxAnswerLen == 6    \* longest answer string drawn for the rendering
MaxTokens == 5       \* most tokens a drawn query is composed of

----------------------------------------------------------------------------
(* Strings *)

FWOpen == "U+3010"
FWClose == "U+3011"

Digits == <<"0", "1", "2", "3", "4", "5", "6", "7", "8", "9">>

IsDigit(c) == \E k \in 1..10 : Digits[k] = c

At(s, i) == s[i + 1]

\* String.prototype.slice(from, to) for 0 <= from, to <= length
Slice(s, from, to) == IF to <= from THEN <<>> ELSE SubSeq(s, from + 1, to)

StringsUpTo(alphabet, n) == UNION {[1..k -> alphabet] : k \in 0..n}

----------------------------------------------------------------------------
(* Citation segmenter: renderAnswerWithInlineSources, the scanning loop *)

\* number of consecutive characters matching \d from index i on
RECURSIVE DigitRun(_, _)
DigitRun(s, i) ==
    IF i < Len(s) /\ IsDigit(At(s, i)) THEN 1 + DigitRun(s, i + 1) ELSE 0

\* mutant of MatchLenAt: the pattern with \d* in place of \d+
MatchLenAt_ZeroDigits(s, i) ==
    IF i < Len(s) /\ At(s, i) = FWOpen
    THEN LET d == DigitRun(s, i + 1)
         IN  IF i + 1 + d < Len(s) /\ At(s, i + 1 + d) = FWClose
             THEN d + 2 ELSE 0
    ELSE 0

\* length of the match of /【\d+】/ that starts at index i, 0 when none does
MatchLenAt(s, i) ==
    IF i < Len(s) /\ At(s, i) = FWOpen
    THEN LET d == DigitRun(s, i + 1)
         IN  IF d >= 1 /\ i + 1 + d < Len(s) /\ At(s, i + 1 + d) = FWClose
             THEN d + 2 ELSE 0
    ELSE 0

\* citationPattern.exec(s) with the regex's lastIndex = from:
\* index of the leftmost match at or after from, -1 for null
RECURSIVE Exec(_, _)
Exec(s, from) ==
    IF from >= Len(s) THEN -1
    ELSE IF MatchLenAt(s, from) > 0 THEN from
    ELSE Exec(s, from + 1)

\* match[0].match(/\d+/)?.[0] || '' : the first run of digits of the match
RECURSIVE FirstDigitRun(_, _)
FirstDigitRun(m, i) ==
    IF i >= Len(m) THEN <<>>
    ELSE IF IsDigit(At(m, i)) THEN Slice(m, i, i + DigitRun(m, i))
    ELSE FirstDigitRun(m, i + 1)

\* a text segment has no id in the source; it is the empty string here
TextSegment(content) == [type |-> "text", content |-> content, id |-> <<>>]

CitationSegment(content) ==
    [type |-> "citation", content |-> content, id |-> FirstDigitRun(content, 0)]

\* mutant of PushText: the text before a match is pushed even when empty
PushText_Always(segs, currentText) == Append(segs, TextSegment(currentText))

\* segments.push({type: 'text', content: currentText}) under  if (currentText)
PushText(segs, currentText) ==
    IF currentText # <<>> THEN Append(segs, TextSegment(currentText)) ELSE segs

\* mutant of PushRemaining: the text after the last match is forgotten
PushRemaining_Dropped(segs, s, lastIndex) == segs

\* the text after the last citation, under  if (lastIndex < processedAnswer.length)
PushRemaining(segs, s, lastIndex) ==
    IF lastIndex < Len(s)
    THEN Append(segs, TextSegment(Slice(s, lastIndex, Len(s))))
    ELSE segs

\* the while loop over citationPattern.exec, then the remaining text
RECURSIVE SegmentLoop(_, _, _)
SegmentLoop(s, lastIndex, segs) ==
    LET matchIndex == Exec(s, lastIndex)
    IN  IF matchIndex = -1
        THEN PushRemaining(segs, s, lastIndex)
        ELSE LET len == MatchLenAt(s, matchIndex)
                 match0 == Slice(s, matchIndex, matchIndex + len)
                 currentText == Slice(s, lastIndex, matchIndex)
             IN  SegmentLoop(s, matchIndex + len,
                             Append(PushText(segs, currentText),
                                    CitationSegment(match0)))

Segmenter(s) == SegmentLoop(s, 0, <<>>)

----------------------------------------------------------------------------
(* Source resolver: sources.find(s => s.id.toString() === id.toString()) *)

\* Number.prototype.toString() of a non-negative integer
RECURSIVE ToString(_)
ToString(n) ==
    IF n < 10 THEN <<Digits[n + 1]>>
    ELSE Append(ToString(n \div 10), Digits[(n % 10) + 1])

DigitValue(c) == (CHOOSE k \in 1..10 : Digits[k] = c) - 1

\* parseInt of a non-empty string of decimal digits
RECURSIVE ParseInt(_)
ParseInt(d) ==
    IF Len(d) = 0 THEN 0
    ELSE 10 * ParseInt(SubSeq(d, 1, Len(d) - 1)) + DigitValue(d[Len(d)])

\* mutant of FindFrom: ids compared as numbers, not as strings
RECURSIVE FindFrom_Numeric(_, _, _)
FindFrom_Numeric(srcs, citeId, i) ==
    IF i >= Len(srcs) THEN <<>>
    ELSE IF At(srcs, i).id = ParseInt(citeId) THEN <<At(srcs, i)>>
    ELSE FindFrom_Numeric(srcs, citeId, i + 1)

\* Array.prototype.find: the first element, from index 0 up, that satisfies
\* the predicate; <<>> for undefined
RECURSIVE FindFrom(_, _, _)
FindFrom(srcs, citeId, i) ==
    IF i >= Len(srcs) THEN <<>>
    ELSE IF ToString(At(srcs, i).id) = citeId THEN <<At(srcs, i)>>
    ELSE FindFrom(srcs, citeId, i + 1)

FindSource(srcs, citeId) == FindFrom(srcs, citeId, 0)

----------------------------------------------------------------------------
(* Rendering: renderAnswerWithInlineSources, the segments.map part, flattened
   to the sequence of nodes it displays.  Each node is a text, a Citation
   superscript or a SourceCard; the card of an undefined source cannot be
   built (SourceCard reads source.url) and makes the render throw. *)

\* String.prototype.lastIndexOf(c), -1 when absent
RECURSIVE LastIndexOfFrom(_, _, _)
LastIndexOfFrom(s, c, i) ==
    IF i < 0 THEN -1
    ELSE IF At(s, i) = c THEN i
    ELSE LastIndexOfFrom(s, c, i - 1)

\* mutant of LastIndexOf: the first occurrence instead of the last
LastIndexOf_First(s, c) ==
    IF \E i \in 0..(Len(s) - 1) : At(s, i) = c
    THEN CHOOSE i \in 0..(Len(s) - 1) :
             At(s, i) = c /\ \A j \in 0..(i - 1) : At(s, j) # c
    ELSE -1

LastIndexOf(s, c) == LastIndexOfFrom(s, c, Len(s) - 1)

\* {text} inside a span; an empty string displays nothing
TextNode(text) ==
    IF text = <<>> THEN <<>>
    ELSE <<[kind |-> "text", text |-> text, id |-> <<>>, source |-> <<>>]>>

\* function Citation: null when no source has the id, else the superscript
Citation(citeId, srcs) ==
    LET found == FindSource(srcs, citeId)
    IN  IF found = <<>> THEN <<>>
        ELSE <<[kind |-> "citation", text |-> <<>>, id |-> citeId,
                source |-> found]>>

\* <SourceCard source={answer.sources.find(...)!} />
SourceCard(citeId, srcs) ==
    <<[kind |-> "card", text |-> <<>>, id |-> citeId,
       source |-> FindSource(srcs, citeId)]>>

\* the condition in front of the card, in each iteration of the component
CardShown(ver, show, citeId, srcs) ==
    IF ver = "perCitation"
    THEN show = <<ParseInt(citeId)>>
    ELSE show /\ FindSource(srcs, citeId) # <<>>

\* the callback of segments.map for the segment at index
RenderSegment(ver, segs, index, srcs, show) ==
    LET segment == At(segs, index)
    IN  IF segment.type = "text"
        THEN LET lastPeriodIndex == LastIndexOf(segment.content, ".")
             IN  IF /\ lastPeriodIndex # -1
                    /\ index < Len(segs) - 1
                    /\ At(segs, index + 1).type = "citation"
                 THEN LET beforePeriod ==
                              Slice(segment.content, 0, lastPeriodIndex + 1)
                          afterPeriod ==
                              Slice(segment.content, lastPeriodIndex + 1,
                                    Len(segment.content))
                          nextId == At(segs, index + 1).id
                      IN  TextNode(beforePeriod)
                            \o Citation(nextId, srcs)
                            \o (IF CardShown(ver, show, nextId, srcs)
                                THEN SourceCard(nextId, srcs) ELSE <<>>)
                            \o TextNode(afterPeriod)
                 ELSE TextNode(segment.content)
        ELSE <<>>

\* segments.map(...): the array of what each segment renders to
SegmentsMap(ver, segs, srcs, show) ==
    [k \in 1..Len(segs) |-> RenderSegment(ver, segs, k - 1, srcs, show)]

RECURSIVE RenderFrom(_, _, _, _, _)
RenderFrom(ver, segs, index, srcs, show) ==
    IF index >= Len(segs) THEN <<>>
    ELSE RenderSegment(ver, segs, index, srcs, show)
           \o RenderFrom(ver, segs, index + 1, srcs, show)

\* renderAnswerWithInlineSources() for a present answer
RenderAnswer(ver, data, show) ==
    RenderFrom(ver, Segmenter(data.answer), 0, data.sources, show)

CardNodes(nodes) == {k \in 1..Len(nodes) : nodes[k].kind = "card"}

CitationNodes(nodes) == {k \in 1..Len(nodes) : nodes[k].kind = "citation"}

RenderThrows(nodes) == \E k \in CardNodes(nodes) : nodes[k].source = <<>>

----------------------------------------------------------------------------
(* Query resolution: the slug of handleSearch and the fragment dispatch *)

\* "How does Coveo ML relevance ranking work?"
PresetRelevanceRanking ==
    <<"H", "o", "w", " ", "d", "o", "e", "s", " ", "C", "o", "v", "e", "o",
      " ", "M", "L", " ", "r", "e", "l", "e", "v", "a", "n", "c", "e", " ",
      "r", "a", "n", "k", "i", "n", "g", " ", "w", "o", "r", "k", "?">>

\* "What data sources can Coveo index out-of-the-box?"
PresetDataSources ==
    <<"W", "h", "a", "t", " ", "d", "a", "t", "a", " ", "s", "o", "u", "r",
      "c", "e", "s", " ", "c", "a", "n", " ", "C", "o", "v", "e", "o", " ",
      "i", "n", "d", "e", "x", " ", "o", "u", "t", "-", "o", "f", "-", "t",
      "h", "e", "-", "b", "o", "x", "?">>

\* "Steps to integrate Coveo with Salesforce Service Cloud"
PresetSalesforce ==
    <<"S", "t", "e", "p", "s", " ", "t", "o", " ", "i", "n", "t", "e", "g",
      "r", "a", "t", "e", " ", "C", "o", "v", "e", "o", " ", "w", "i", "t",
      "h", " ", "S", "a", "l", "e", "s", "f", "o", "r", "c", "e", " ", "S",
      "e", "r", "v", "i", "c", "e", " ", "C", "l", "o", "u", "d">>

\* "What is Coveo Machine Learning and how does it improve search results?"
FollowUpMachineLearning ==
    <<"W", "h", "a", "t", " ", "i", "s", " ", "C", "o", "v", "e", "o", " ",
      "M", "a", "c", "h", "i", "n", "e", " ", "L", "e", "a", "r", "n", "i",
      "n", "g", " ", "a", "n", "d", " ", "h", "o", "w", " ", "d", "o", "e",
      "s", " ", "i", "t", " ", "i", "m", "p", "r", "o", "v", "e", " ", "s",
      "e", "a", "r", "c", "h", " ", "r", "e", "s", "u", "l", "t", "s", "?">>

\* "How does Coveo handle personalization in enterprise search?"
FollowUpPersonalization ==
    <<"H", "o", "w", " ", "d", "o", "e", "s", " ", "C", "o", "v", "e", "o",
      " ", "h", "a", "n", "d", "l", "e", " ", "p", "e", "r", "s", "o", "n",
      "a", "l", "i", "z", "a", "t", "i", "o", "n", " ", "i", "n", " ", "e",
      "n", "t", "e", "r", "p", "r", "i", "s", "e", " ", "s", "e", "a", "r",
      "c", "h", "?">>

\* "What are Coveo's key features for e-commerce search?"
FollowUpECommerce ==
    <<"W", "h", "a", "t", " ", "a", "r", "e", " ", "C", "o", "v", "e", "o",
      "'", "s", " ", "k", "e", "y", " ", "f", "e", "a", "t", "u", "r", "e",
      "s", " ", "f", "o", "r", " ", "e", "-", "c", "o", "m", "m", "e", "r",
      "c", "e", " ", "s", "e", "a", "r", "c", "h", "?">>

\* "what is the weather"
TypedWeather ==
    <<"w", "h", "a", "t", " ", "i", "s", " ", "t", "h", "e", " ", "w", "e",
      "a", "t", "h", "e", "r">>

\* "relevance-ranking"
FragRelevanceRanking ==
    <<"r", "e", "l", "e", "v", "a", "n", "c", "e", "-", "r", "a", "n", "k",
      "i", "n", "g">>

\* "data-sources"
FragDataSources ==
    <<"d", "a", "t", "a", "-", "s", "o", "u", "r", "c", "e", "s">>

\* "salesforce"
FragSalesforce ==
    <<"s", "a", "l", "e", "s", "f", "o", "r", "c", "e">>

\* "ABCDEFGHIJKLMNOPQRSTUVWXYZ"
UpperCaseLetters ==
    <<"A", "B", "C", "D", "E", "F", "G", "H", "I", "J", "K", "L", "M", "N",
      "O", "P", "Q", "R", "S", "T", "U", "V", "W", "X", "Y", "Z">>

\* "abcdefghijklmnopqrstuvwxyz"
LowerCaseLetters ==
    <<"a", "b", "c", "d", "e", "f", "g", "h", "i", "j", "k", "l", "m", "n",
      "o", "p", "q", "r", "s", "t", "u", "v", "w", "x", "y", "z">>

IsLowerOrDigit(c) ==
    \/ \E k \in 1..26 : LowerCaseLetters[k] = c
    \/ IsDigit(c)

\* String.prototype.toLowerCase, on the ASCII letters of the queries
ToLowerCase(q) ==
    [i \in 1..Len(q) |->
        IF \E k \in 1..26 : UpperCaseLetters[k] = q[i]
        THEN LowerCaseLetters[CHOOSE k \in 1..26 : UpperCaseLetters[k] = q[i]]
        ELSE q[i]]

\* .replace(/[^a-z0-9]+/g, '-') : inRun tells that the previous character
\* was already replaced
RECURSIVE ReplaceRuns(_, _)
ReplaceRuns(s, inRun) ==
    IF s = <<>> THEN <<>>
    ELSE IF IsLowerOrDigit(Head(s))
         THEN <<Head(s)>> \o ReplaceRuns(Tail(s), FALSE)
         ELSE (IF inRun THEN <<>> ELSE <<"-">>) \o ReplaceRuns(Tail(s), TRUE)

\* mutant of TrimDashes: only the leading separator is removed
TrimDashes_LeadingOnly(s) ==
    IF s # <<>> /\ Head(s) = "-" THEN Tail(s) ELSE s

\* .replace(/(^-|-$)/g, '')
TrimDashes(s) ==
    LET a == IF s # <<>> /\ Head(s) = "-" THEN Tail(s) ELSE s
    IN  IF a # <<>> /\ a[Len(a)] = "-" THEN SubSeq(a, 1, Len(a) - 1) ELSE a

Slug(q) == TrimDashes(ReplaceRuns(ToLowerCase(q), FALSE))

\* String.prototype.includes
Includes(s, fragment) ==
    \E i \in 0..(Len(s) - Len(fragment)) :
        Slice(s, i, i + Len(fragment)) = fragment

MockFiles ==
    {"relevance-ranking.json", "data-sources.json",
     "salesforce-integration.json"}

\* mutant of MockFileFor: the chain tests the fragments in another order
MockFileFor_SalesforceFirst(s) ==
    IF Includes(s, FragSalesforce) THEN <<"salesforce-integration.json">>
    ELSE IF Includes(s, FragRelevanceRanking) THEN <<"relevance-ranking.json">>
    ELSE IF Includes(s, FragDataSources) THEN <<"data-sources.json">>
    ELSE <<>>

\* the if / else if chain: the file to import, <<>> when no fragment matches
MockFileFor(s) ==
    IF Includes(s, FragRelevanceRanking) THEN <<"relevance-ranking.json">>
    ELSE IF Includes(s, FragDataSources) THEN <<"data-sources.json">>
    ELSE IF Includes(s, FragSalesforce)
         THEN <<"salesforce-integration.json">>
    ELSE <<>>

----------------------------------------------------------------------------
(* The component: state, handlers and the completion of the imports *)

\* null of  AnswerData | null
Null == <<>>

\* the fields of Source the logic reads
Source(n, label) == [id |-> n, label |-> label]

\* contents of the mock files: an answer with two cited sources, one with
\* one source cited twice, and one with a marker at the start, a marker
\* after text without a period, a marker without a source and a marker
\* written with a leading zero
PayloadChoices ==
    { [answer  |-> <<"a", ".", FWOpen, "1", FWClose,
                     "b", ".", FWOpen, "2", FWClose, "c">>,
       sources |-> <<Source(1, "A"), Source(2, "B")>>],
      [answer  |-> <<"a", ".", FWOpen, "1", FWClose,
                     "b", ".", FWOpen, "1", FWClose>>,
       sources |-> <<Source(1, "A")>>],
      [answer  |-> <<FWOpen, "1", FWClose, "a", FWOpen, "2", FWClose,
                     "b", ".", FWOpen, "3", FWClose,
                     "c", ".", FWOpen, "1", FWClose,
                     "d", ".", FWOpen, "0", "1", FWClose>>,
       sources |-> <<Source(1, "A"), Source(2, "B")>>] }

presetQueries ==
    IF version = "perCitation"
    THEN {PresetSalesforce}
    ELSE {PresetRelevanceRanking, PresetDataSources, PresetSalesforce}

followUpQuestions ==
    {FollowUpMachineLearning, FollowUpPersonalization, FollowUpECommerce}

\* texts typed into the search field
TypedQueries == {<<>>, TypedWeather, PresetRelevanceRanking}

Tabs == {"perplexity", "sources", "reasoning"}

\* every query a handler can pass to handleSearch
Queries ==
    TypedQueries \cup followUpQuestions
      \cup {PresetRelevanceRanking, PresetDataSources, PresetSalesforce}

\* slug and dispatch of handleSearch, tabulated over Queries
ImportFor == [q \in Queries \ {<<>>} |-> MockFileFor(Slug(q))]

\* the object passed to setAnswer when the import of file resolves
AnswerFromData(file) ==
    IF version = "perCitation"
    THEN [answer |-> mockData[file].answer, sources |-> mockData[file].sources,
          reasoning |-> "mockReasoningData"]
    ELSE [answer |-> mockData[file].answer, sources |-> mockData[file].sources,
          reasoning |-> "none"]

\* what the answer panel displays; its inline part is mounted only on the
\* "perplexity" tab in the perCitation iteration
AnswerPanelShown == answer # Null

InlineAnswerShown ==
    answer # Null /\ (version = "perCitation" => activeTab = "perplexity")

Rendered ==
    IF InlineAnswerShown
    THEN RenderAnswer(version, answer[1], showSources) ELSE <<>>

\* a render that threw has unmounted the component: no handler runs any more
Crashed == RenderThrows(Rendered)

Mounted == pc = "ui" /\ ~Crashed

Snapshot ==
    [answer |-> answer, showSources |-> showSources,
     activeTab |-> activeTab, pending |-> pending]

Op(name, q, file, n) == [op |-> name, q |-> q, file |-> file, n |-> n]

Record(op) == lastOp' = op /\ before' = Snapshot

RemoveAt(seq, i) == SubSeq(seq, 1, i - 1) \o SubSeq(seq, i + 1, Len(seq))

AllHiddenValue == IF version = "perCitation" THEN <<>> ELSE FALSE

\* mutant of ShowSourcesOnSearch: the search leaves the visibility alone
ShowSourcesOnSearch_Kept == showSources

\* setShowSources(false) of handleSearch
ShowSourcesOnSearch == AllHiddenValue

\* mutant of ActiveTabOnSearch: the search leaves the tab alone
ActiveTabOnSearch_Kept == activeTab

\* setActiveTab("perplexity") of handleSearch, perCitation iteration only
ActiveTabOnSearch == "perplexity"

\* mutant of AnswerOnNoMatch: the unmatched search clears the answer
AnswerOnNoMatch_Cleared == Null

\* the else branch of the chain: console.error and return, answer untouched
AnswerOnNoMatch == answer

\* mutant of AnswerOnLoadError: the failed import leaves the answer alone
AnswerOnLoadError_Kept == answer

\* the catch block: console.error and setAnswer(null)
AnswerOnLoadError == Null

\* handleSearch(q) up to its first await
handleSearch(q) ==
    /\ Record(Op("handleSearch", q, "", -1))
    /\ IF q = <<>>
       THEN UNCHANGED <<query, showSources, activeTab, answer, pending>>
       ELSE /\ query' = q
            /\ showSources' = ShowSourcesOnSearch
            /\ activeTab' = ActiveTabOnSearch
            /\ LET file == ImportFor[q]
               IN  IF file = <<>>
                   THEN answer' = AnswerOnNoMatch /\ UNCHANGED pending
                   ELSE /\ Len(pending) < MaxInFlight
                        /\ pending' = Append(pending, [q |-> q, file |-> file[1]])
                        /\ UNCHANGED answer
    /\ UNCHANGED <<version, mockData, pc, pureVars>>

\* onChange of the search field: setQuery(e.target.value)
TypeQuery ==
    /\ Mounted
    /\ \E text \in TypedQueries :
          /\ text # query
          /\ query' = text
          /\ Record(Op("setQuery", text, "", -1))
    /\ UNCHANGED <<version, mockData, answer, showSources, activeTab, pending,
                   pc, pureVars>>

\* the Search button: handleSearch(query)
ClickSearch == Mounted /\ handleSearch(query)

\* a query pill: handleSearch(pq)
ClickPreset == Mounted /\ \E pq \in presetQueries : handleSearch(pq)

\* a follow-up question of the answer panel: handleSearch(question)
ClickFollowUp ==
    /\ Mounted
    /\ InlineAnswerShown
    /\ \E question \in followUpQuestions : handleSearch(question)

\* mutant of AnswerOnResolve: only the import started last may set the answer
AnswerOnResolve_Fenced(i) ==
    IF i = Len(pending) THEN <<AnswerFromData(pending[i].file)>> ELSE answer

\* setAnswer({...data, reasoning}) after the await, whichever call resumes
AnswerOnResolve(i) == <<AnswerFromData(pending[i].file)>>

\* the awaited import of pending[i] resolves: setAnswer({...data, reasoning})
ImportResolved ==
    /\ Mounted
    /\ \E i \in 1..Len(pending) :
          /\ answer' = AnswerOnResolve(i)
          /\ pending' = RemoveAt(pending, i)
          /\ Record(Op("importResolved", pending[i].q, pending[i].file, -1))
    /\ UNCHANGED <<version, mockData, query, showSources, activeTab, pc,
                   pureVars>>

\* the awaited import of pending[i] rejects: the catch block
ImportRejected ==
    /\ Mounted
    /\ \E i \in 1..Len(pending) :
          /\ answer' = AnswerOnLoadError
          /\ pending' = RemoveAt(pending, i)
          /\ Record(Op("importRejected", pending[i].q, pending[i].file, -1))
    /\ UNCHANGED <<version, mockData, query, showSources, activeTab, pc,
                   pureVars>>

\* mutant of toggleSource: a click always opens the clicked source
toggleSource_AlwaysOpen(currentSource, sourceId) == <<sourceId>>

\* setShowSources(currentSource => currentSource === sourceId ? false : sourceId)
toggleSource(currentSource, sourceId) ==
    IF currentSource = <<sourceId>> THEN <<>> ELSE <<sourceId>>

\* onClick of a displayed Citation: toggleSource(parseInt(segments[index + 1].id))
ClickCitation ==
    /\ Mounted
    /\ version = "perCitation"
    /\ \E k \in CitationNodes(Rendered) :
          LET sourceId == ParseInt(Rendered[k].id)
          IN  /\ showSources' = toggleSource(showSources, sourceId)
              /\ Record(Op("toggleSource", <<>>, "", sourceId))
    /\ UNCHANGED <<version, mockData, query, answer, activeTab, pending, pc,
                   pureVars>>

\* the Show / Hide Sources button: setShowSources(!showSources)
ClickShowSources ==
    /\ Mounted
    /\ version = "global"
    /\ AnswerPanelShown
    /\ showSources' = ~showSources
    /\ Record(Op("setShowSources", <<>>, "", -1))
    /\ UNCHANGED <<version, mockData, query, answer, activeTab, pending, pc,
                   pureVars>>

\* a tab trigger: onValueChange={setActiveTab}
ClickTab ==
    /\ Mounted
    /\ version = "perCitation"
    /\ AnswerPanelShown
    /\ \E tab \in Tabs :
          /\ tab # activeTab
          /\ activeTab' = tab
          /\ Record(Op("setActiveTab", <<>>, tab, -1))
    /\ UNCHANGED <<version, mockData, query, answer, showSources, pending, pc,
                   pureVars>>

Init ==
    /\ pc = "ui"
    /\ version \in {"perCitation", "global"}
    /\ mockData \in [MockFiles -> PayloadChoices]
    /\ query = <<>>
    /\ answer = Null
    /\ showSources = AllHiddenValue
    /\ activeTab = "perplexity"
    /\ pending = <<>>
    /\ lastOp = Op("init", <<>>, "", -1)
    /\ before = [answer |-> Null,
                 showSources |-> AllHiddenValue, activeTab |-> "perplexity",
                 pending |-> <<>>]
    /\ processedAnswer = <<>>
    /\ segments = <<>>
    /\ sources = <<>>
    /\ id = <<>>
    /\ src = <<>>
    /\ rendered = <<>>
    /\ slug = <<>>
    /\ mockFile = <<>>

Next ==
    \/ TypeQuery
    \/ ClickSearch
    \/ ClickPreset
    \/ ClickFollowUp
    \/ ImportResolved
    \/ ImportRejected
    \/ ClickCitation
    \/ ClickShowSources
    \/ ClickTab

Spec == Init /\ [][Next]_vars

----------------------------------------------------------------------------
(* The component before any pure-function run touches it *)

UIUnmounted ==
    /\ version = "perCitation"
    /\ mockData = <<>>
    /\ query = <<>>
    /\ answer = Null
    /\ showSources = <<>>
    /\ activeTab = "perplexity"
    /\ pending = <<>>
    /\ lastOp = <<>>
    /\ before = <<>>

----------------------------------------------------------------------------
(* Specification of the citation segmenter on drawn answer strings *)

SegAlphabet == {FWOpen, FWClose, "[", "]", "0", "1", "a"}

InitSegmenter ==
    /\ UIUnmounted
    /\ pc = "start"
    /\ processedAnswer \in StringsUpTo(SegAlphabet, MaxLen)
    /\ segments = <<>>
    /\ sources = <<>>
    /\ id = <<>>
    /\ src = <<>>
    /\ rendered = <<>>
    /\ slug = <<>>
    /\ mockFile = <<>>

RunSegmenter ==
    /\ pc = "start"
    /\ pc' = "done"
    /\ segments' = Segmenter(processedAnswer)
    /\ UNCHANGED <<uiVars, processedAnswer, sources, id, src, rendered, slug,
                   mockFile>>

NextSegmenter == RunSegmenter

SpecSegmenter == InitSegmenter /\ [][NextSegmenter]_vars

----------------------------------------------------------------------------
(* Specification of the source resolver on drawn source lists and ids *)

SourcePool == [id : {0, 1, 10}, label : {"A", "B"}]

IdAlphabet == {"0", "1"}

InitResolver ==
    /\ UIUnmounted
    /\ pc = "start"
    /\ processedAnswer = <<>>
    /\ segments = <<>>
    /\ sources \in StringsUpTo(SourcePool, MaxSources)
    /\ id \in StringsUpTo(IdAlphabet, MaxIdLen) \ {<<>>}
    /\ src = <<>>
    /\ rendered = <<>>
    /\ slug = <<>>
    /\ mockFile = <<>>

RunResolver ==
    /\ pc = "start"
    /\ pc' = "done"
    /\ src' = FindSource(sources, id)
    /\ UNCHANGED <<uiVars, processedAnswer, segments, sources, id, rendered,
                   slug, mockFile>>

NextResolver == RunResolver

SpecResolver == InitResolver /\ [][NextResolver]_vars

----------------------------------------------------------------------------
(* Specification of the rendering on drawn answers, sources and visibility *)

RenderAlphabet == {FWOpen, FWClose, "1", ".", "a"}

RenderSourceLists ==
    {<<Source(1, "A")>>, <<Source(11, "B"), Source(1, "A")>>}

InitRender ==
    /\ pc = "start"
    /\ version \in {"perCitation", "global"}
    /\ mockData = <<>>
    /\ query = <<>>
    /\ answer = Null
    /\ showSources \in (IF version = "perCitation" THEN {<<>>, <<1>>}
                        ELSE BOOLEAN)
    /\ activeTab = "perplexity"
    /\ pending = <<>>
    /\ lastOp = <<>>
    /\ before = <<>>
    /\ processedAnswer \in StringsUpTo(RenderAlphabet, MaxAnswerLen)
    /\ segments = <<>>
    /\ sources \in RenderSourceLists
    /\ id = <<>>
    /\ src = <<>>
    /\ rendered = <<>>
    /\ slug = <<>>
    /\ mockFile = <<>>

RunRender ==
    /\ pc = "start"
    /\ pc' = "done"
    /\ segments' = Segmenter(processedAnswer)
    /\ rendered' = SegmentsMap(version, Segmenter(processedAnswer), sources,
                               showSources)
    /\ UNCHANGED <<uiVars, processedAnswer, sources, id, src, slug, mockFile>>

NextRender == RunRender

SpecRender == InitRender /\ [][NextRender]_vars

----------------------------------------------------------------------------
(* Specification of the query resolution on drawn queries *)

\* pieces the drawn queries are composed of
QueryTokens ==
    { <<"A">>, <<"1">>, <<" ">>, <<"-">>, <<"?">>,
      <<"S", "a", "l", "e", "s", "f", "o", "r", "c", "e">>,
      <<"D", "a", "t", "a", " ", "s", "o", "u", "r", "c", "e", "s">>,
      <<"R", "e", "l", "e", "v", "a", "n", "c", "e", " ",
        "r", "a", "n", "k", "i", "n", "g">> }

RECURSIVE Flatten(_)
Flatten(tokens) ==
    IF tokens = <<>> THEN <<>> ELSE Head(tokens) \o Flatten(Tail(tokens))

InitQuery ==
    /\ pc = "start"
    /\ version = "perCitation"
    /\ mockData = <<>>
    /\ query \in {Flatten(t) : t \in StringsUpTo(QueryTokens, MaxTokens)}
    /\ answer = Null
    /\ showSources = <<>>
    /\ activeTab = "perplexity"
    /\ pending = <<>>
    /\ lastOp = <<>>
    /\ before = <<>>
    /\ processedAnswer = <<>>
    /\ segments = <<>>
    /\ sources = <<>>
    /\ id = <<>>
    /\ src = <<>>
    /\ rendered = <<>>
    /\ slug = <<>>
    /\ mockFile = <<>>

\* const slug = ...; then the fragment chain picks the file to import
RunQuery ==
    /\ pc = "start"
    /\ pc' = "done"
    /\ slug' = Slug(query)
    /\ mockFile' = MockFileFor(Slug(query))
    /\ UNCHANGED <<uiVars, processedAnswer, segments, sources, id, src,
                   rendered>>

NextQuery == RunQuery

SpecQuery == InitQuery /\ [][NextQuery]_vars

----------------------------------------------------------------------------
(* Citation markers of a string, stated without the scanning loop *)

\* a marker with d digits starts at index i
IsMarkerAt(s, i, d) ==
    /\ d >= 1
    /\ i + d + 1 < Len(s)
    /\ At(s, i) = FWOpen
    /\ \A k \in 1..d : IsDigit(At(s, i + k))
    /\ At(s, i + d + 1) = FWClose

Markers(s) ==
    {m \in (0..(Len(s) - 1)) \X (1..Len(s)) : IsMarkerAt(s, m[1], m[2])}

NoMarkers(s) == Markers(s) = {}

RECURSIVE ConcatContents(_)
ConcatContents(segs) ==
    IF segs = <<>> THEN <<>>
    ELSE Head(segs).content \o ConcatContents(Tail(segs))

\* index in the answer at which the k-th segment starts
SegOffset(segs, k) == Len(ConcatContents(SubSeq(segs, 1, k - 1)))

CitationIdx(segs) == {k \in 1..Len(segs) : segs[k].type = "citation"}

TextIdx(segs) == {k \in 1..Len(segs) : segs[k].type = "text"}

----------------------------------------------------------------------------
(* Claims about the citation segmenter (SpecSegmenter) *)

\* C1: concatenating the content of every returned segment, in order,
\* reproduces the input string exactly.
C1_LosslessRoundTrip ==
    pc = "done" => ConcatContents(segments) = processedAnswer

\* C1 witness: a segmented string with two adjacent markers.
C1_Witness ==
    /\ pc = "done"
    /\ \E k \in 1..(Len(segments) - 1) :
          segments[k].type = "citation" /\ segments[k + 1].type = "citation"

\* C2 as stated: every input with zero markers, the empty string included,
\* yields exactly one text segment equal to the input.
C2_Original ==
    (pc = "done" /\ NoMarkers(processedAnswer))
        => segments = <<TextSegment(processedAnswer)>>

\* C2 (amended): a non-empty input with zero markers yields exactly one text
\* segment whose content is the whole input; the empty input yields no
\* segment at all.
C2_SingleTextSegment ==
    (pc = "done" /\ NoMarkers(processedAnswer))
        => IF processedAnswer = <<>>
           THEN segments = <<>>
           ELSE segments = <<TextSegment(processedAnswer)>>

\* C2 witness: a marker-free input with full-width brackets around no digit.
C2_Witness ==
    /\ pc = "done"
    /\ NoMarkers(processedAnswer)
    /\ \E i \in 0..(Len(processedAnswer) - 2) :
          At(processedAnswer, i) = FWOpen /\ At(processedAnswer, i + 1) = FWClose
    /\ Len(segments) = 1

----------------------------------------------------------------------------
(* Claims about the source resolver (SpecResolver) *)

MatchingIdx(srcs, citeId) ==
    {i \in 1..Len(srcs) : ToString(srcs[i].id) = citeId}

\* C4: the resolver returns the first source, in list order, whose id
\* converted to string equals the id string exactly, and "not found" when
\* there is none.
C4_FirstMatchingSource ==
    pc = "done" =>
        LET M == MatchingIdx(sources, id)
        IN  IF M = {} THEN src = <<>>
            ELSE src = <<sources[CHOOSE i \in M : \A j \in M : i <= j]>>

\* C4 witness: two sources with the matching id and different labels.
C4_Witness ==
    /\ pc = "done"
    /\ src # <<>>
    /\ \E i, j \in MatchingIdx(sources, id) :
          i < j /\ sources[i].label # sources[j].label

----------------------------------------------------------------------------
(* Claims about the component (Spec) *)

KnownFragments == {FragRelevanceRanking, FragDataSources, FragSalesforce}

FragmentOfFile ==
    [f \in MockFiles |->
        IF f = "relevance-ranking.json" THEN FragRelevanceRanking
        ELSE IF f = "data-sources.json" THEN FragDataSources
        ELSE FragSalesforce]

SlugOf == [q \in Queries |-> Slug(q)]

NoKnownFragment(q) == \A f \in KnownFragments : ~Includes(SlugOf[q], f)

AllHidden == showSources = AllHiddenValue

\* the last step was a handleSearch call that got past  if (!q) return
SearchStarted == lastOp.op = "handleSearch" /\ lastOp.q # <<>>

\* C5: per-citation variant: the visibility starts at AllHidden; toggling
\* id x leads to AllHidden from Expanded(x) and to Expanded(x) from any
\* other state, so after a toggle the state is AllHidden or Expanded of the
\* id toggled last.
C5_PerCitationToggle ==
    version = "perCitation" =>
        /\ lastOp.op = "init" => showSources = <<>>
        /\ lastOp.op = "toggleSource" =>
              /\ before.showSources = <<lastOp.n>> => showSources = <<>>
              /\ before.showSources # <<lastOp.n>> => showSources = <<lastOp.n>>
              /\ showSources \in {<<>>, <<lastOp.n>>}

\* C5 witness: a toggle of one id while another id was expanded.
C5_Witness ==
    /\ version = "perCitation"
    /\ lastOp.op = "toggleSource"
    /\ before.showSources # <<>>
    /\ before.showSources # <<lastOp.n>>
    /\ showSources = <<lastOp.n>>

\* C6: per-citation variant: the rendered answer contains at most one open
\* source card, also when one citation id occurs in several markers.
C6_AtMostOneCard ==
    (pc = "ui" /\ version = "perCitation" /\ ~Crashed)
        => Cardinality(CardNodes(Rendered)) <= 1

\* C7: every started search, in either variant and whatever its query
\* resolves to, leaves the visibility at AllHidden.
C7_SearchResetsVisibility == SearchStarted => AllHidden

\* C7 witness: a search that matches no fragment, started while a card
\* was expanded.
C7_Witness ==
    /\ SearchStarted
    /\ before.showSources # AllHiddenValue
    /\ NoKnownFragment(lastOp.q)
    /\ AllHidden

\* C8: a search whose slug contains no known fragment leaves the answer as
\* it was and starts no load; a search whose slug contains a fragment loads
\* that fragment's file, and the answer becomes its payload when the load
\* resolves ("How does Coveo ML relevance ranking work?" loads
\* relevance-ranking).
C8_NoMatchKeepsAnswer ==
    /\ (lastOp.op = "handleSearch" /\ NoKnownFragment(lastOp.q))
          => (answer = before.answer /\ pending = before.pending)
    /\ (SearchStarted /\ ~NoKnownFragment(lastOp.q))
          => /\ Len(pending) = Len(before.pending) + 1
             /\ pending[Len(pending)].q = lastOp.q
             /\ Includes(SlugOf[lastOp.q],
                         FragmentOfFile[pending[Len(pending)].file])
    /\ (SearchStarted /\ lastOp.q = PresetRelevanceRanking)
          => pending[Len(pending)].file = "relevance-ranking.json"
    /\ lastOp.op = "importResolved"
          => /\ Includes(SlugOf[lastOp.q], FragmentOfFile[lastOp.file])
             /\ answer # Null
             /\ answer[1].answer = mockData[lastOp.file].answer
             /\ answer[1].sources = mockData[lastOp.file].sources

\* C8 witness: an unmatched search that completed while an answer was
\* displayed.
C8_Witness ==
    /\ SearchStarted
    /\ NoKnownFragment(lastOp.q)
    /\ before.answer # Null
    /\ answer = before.answer

\* C9 as stated: after a search with an unresolvable slug the answer, the
\* visibility and the active tab all have the value they had before.
C9_Original ==
    (lastOp.op = "handleSearch" /\ NoKnownFragment(lastOp.q))
        => /\ answer = before.answer
           /\ showSources = before.showSources
           /\ activeTab = before.activeTab

\* C9 (amended): after a search with a non-empty query and an unresolvable
\* slug the answer has the value it had before, the visibility is AllHidden
\* and the active tab is "perplexity"; only the search with an empty query
\* leaves every field as it was.
C9_NoMatchKeepsAnswerOnly ==
    /\ (SearchStarted /\ NoKnownFragment(lastOp.q))
          => /\ answer = before.answer
             /\ AllHidden
             /\ activeTab = "perplexity"
             /\ query = lastOp.q
    /\ (lastOp.op = "handleSearch" /\ lastOp.q = <<>>)
          => /\ answer = before.answer
             /\ showSources = before.showSources
             /\ activeTab = before.activeTab

\* C9 witness: an unmatched search started on another tab with a card
\* expanded.
C9_Witness ==
    /\ SearchStarted
    /\ NoKnownFragment(lastOp.q)
    /\ before.answer # Null
    /\ before.showSources # AllHiddenValue
    /\ before.activeTab # "perplexity"

\* C10: when the load of a matched search fails the answer is cleared,
\* whatever was displayed, and no load is started again.
C10_LoadFailureClearsAnswer ==
    lastOp.op = "importRejected" =>
        /\ answer = Null
        /\ \E i \in 1..Len(before.pending) :
              /\ before.pending[i] = [q |-> lastOp.q, file |-> lastOp.file]
              /\ pending = RemoveAt(before.pending, i)

\* C10 witness: a failed load while an answer was displayed.
C10_Witness ==
    /\ lastOp.op = "importRejected"
    /\ before.answer # Null
    /\ answer = Null

\* the citation segments of the displayed answer and the ones with a source
DisplayedSegments == Segmenter(answer[1].answer)

Resolves(citeId) == FindSource(answer[1].sources, citeId) # <<>>

\* C11: rendering a marker whose id string matches no source never builds a
\* source card from an absent source and shows no citation or card for that
\* marker, also when the id differs from a source id by leading zeros only.
C11_UnmatchedMarkerIsHarmless ==
    (pc = "ui" /\ InlineAnswerShown) =>
        \A k \in 1..Len(Rendered) :
            (Rendered[k].kind \in {"citation", "card"})
                => (Rendered[k].source # <<>> /\ Resolves(Rendered[k].id))

\* C13: global-toggle variant: the visibility starts at AllHidden, the
\* show/hide action flips it, in AllExpanded every marker whose id resolves
\* to a source has a card of that source rendered, in AllHidden no card is
\* rendered.
C13_GlobalToggleShowsAllCards ==
    (pc = "ui" /\ version = "global") =>
        /\ lastOp.op = "init" => showSources = FALSE
        /\ lastOp.op = "setShowSources" => showSources = ~before.showSources
        /\ (answer # Null /\ ~showSources) => CardNodes(Rendered) = {}
        /\ (answer # Null /\ showSources) =>
              \A j \in CitationIdx(DisplayedSegments) :
                  Resolves(DisplayedSegments[j].id) =>
                      \E k \in CardNodes(Rendered) :
                          Rendered[k].source =
                              FindSource(answer[1].sources,
                                         DisplayedSegments[j].id)

\* C14: a search that resolves sets the answer to its payload at that moment,
\* whatever its place among the searches in flight; when nothing is in
\* flight any more the answer is the payload of the search that resolved
\* last.
C14_LastResolvedWins ==
    lastOp.op = "importResolved" =>
        /\ answer = <<AnswerFromData(lastOp.file)>>
        /\ \E i \in 1..Len(before.pending) :
              /\ before.pending[i] = [q |-> lastOp.q, file |-> lastOp.file]
              /\ pending = RemoveAt(before.pending, i)

\* C14 witness: the search issued first resolves while a search issued
\* later, for another payload, had been in flight; the answer is the
\* payload of the earlier search.
C14_Witness ==
    /\ lastOp.op = "importResolved"
    /\ Len(before.pending) = 2
    /\ before.pending[1] = [q |-> lastOp.q, file |-> lastOp.file]
    /\ pending = <<before.pending[2]>>
    /\ mockData[before.pending[2].file] # mockData[lastOp.file]
    /\ before.answer # Null
    /\ before.answer # answer
    /\ answer = <<AnswerFromData(lastOp.file)>>

\* C18: per-citation variant: whenever an answer is displayed and the
\* visibility is Expanded(id), id is the id of a source of that answer; when
\* a resolving search has just replaced the answer the visibility is
\* AllHidden.
C18_ExpandedIdBelongsToAnswer ==
    (pc = "ui" /\ version = "perCitation") =>
        /\ (answer # Null /\ showSources # <<>>) =>
              \E i \in 1..Len(answer[1].sources) :
                  answer[1].sources[i].id = showSources[1]
        /\ lastOp.op = "importResolved" => showSources = <<>>

----------------------------------------------------------------------------
(* Claims about the placement of citations in the rendering (SpecRender) *)

NodeKinds(nodes) == [n \in 1..Len(nodes) |-> nodes[n].kind]

RECURSIVE TextOf(_)
TextOf(nodes) ==
    IF nodes = <<>> THEN <<>> ELSE Head(nodes).text \o TextOf(Tail(nodes))

\* the citation with this id counts as open
IsOpen(citeId) ==
    IF version = "perCitation"
    THEN showSources # <<>> /\ showSources[1] = ParseInt(citeId)
    ELSE showSources /\ FindSource(sources, citeId) # <<>>

\* what the segments k-1 and k render to, k being a citation segment
AroundMarker(k) ==
    (IF k > 1 THEN rendered[k - 1] ELSE <<>>) \o rendered[k]

\* C12: every citation segment whose id resolves to a source has its
\* citation marker in the rendered output, at the preceding text segment or
\* at its own position, and its card as well when it is open; this also
\* when the preceding text has no period or there is no preceding text.
C12_ResolvableCitationRendered ==
    pc = "done" =>
        \A k \in CitationIdx(segments) :
            FindSource(sources, segments[k].id) # <<>> =>
                /\ \E n \in CitationNodes(AroundMarker(k)) :
                       AroundMarker(k)[n].id = segments[k].id
                /\ IsOpen(segments[k].id) =>
                       \E n \in CardNodes(AroundMarker(k)) :
                           AroundMarker(k)[n].id = segments[k].id

HasPeriod(text) == \E p \in 1..Len(text) : text[p] = "."

\* position (from 1) of the last period of a text that has one
LastPeriod(text) ==
    CHOOSE p \in 1..Len(text) :
        text[p] = "." /\ \A q \in (p + 1)..Len(text) : text[q] # "."

\* text segments with a period that a citation segment follows directly
SplitIdx(segs) ==
    {k \in TextIdx(segs) :
        /\ HasPeriod(segs[k].content)
        /\ k < Len(segs)
        /\ segs[k + 1].type = "citation"}

\* the kinds of nodes expected for such a segment
ExpectedKinds(k) ==
    LET text == segments[k].content
        cid == segments[k + 1].id
    IN  <<"text">>
        \o (IF FindSource(sources, cid) # <<>> THEN <<"citation">> ELSE <<>>)
        \o (IF IsOpen(cid) THEN <<"card">> ELSE <<>>)
        \o (IF LastPeriod(text) < Len(text) THEN <<"text">> ELSE <<>>)

\* "A. B" followed by marker 1, whose source exists and is closed
ExampleAnswer == <<"A", ".", " ", "B", FWOpen, "1", FWClose>>

ExampleRendered ==
    SegmentsMap("perCitation", Segmenter(ExampleAnswer), <<Source(1, "A")>>,
                <<>>)[1]

\* C15: a text segment with a period, directly followed by a citation
\* segment, renders as the text up to and including its last period, then
\* the citation marker, then the card if the citation is open, then the
\* characters after the period; the text rendered is the segment unchanged;
\* "A. B" followed by marker 1 splits between "A." and " B".
C15_SentenceSplitPlacement ==
    pc = "done" =>
        /\ \A k \in SplitIdx(segments) :
              LET text == segments[k].content
                  nodes == rendered[k]
              IN  /\ NodeKinds(nodes) = ExpectedKinds(k)
                  /\ nodes[1].text = SubSeq(text, 1, LastPeriod(text))
                  /\ TextOf(nodes) = text
                  /\ \A n \in CitationNodes(nodes) \cup CardNodes(nodes) :
                         nodes[n].id = segments[k + 1].id
        /\ NodeKinds(ExampleRendered) = <<"text", "citation", "text">>
        /\ ExampleRendered[1].text = <<"A", ".">>
        /\ ExampleRendered[3].text = <<" ", "B">>

\* C15 witness: "a.a" followed by an open marker 1 has rendered as "a.",
\* the marker, the card, "a".
C15_Witness ==
    /\ pc = "done"
    /\ 1 \in SplitIdx(segments)
    /\ segments[1].content = <<"a", ".", "a">>
    /\ NodeKinds(rendered[1]) = <<"text", "citation", "card", "text">>
    /\ rendered[1][1].text = <<"a", ".">>
    /\ rendered[1][4].text = <<"a">>

----------------------------------------------------------------------------
(* Claims about the query resolution (SpecQuery) *)

\* the fragments and their files in the order relevance-ranking,
\* data-sources, salesforce
FragmentOrder == <<FragRelevanceRanking, FragDataSources, FragSalesforce>>

FileOrder ==
    <<"relevance-ranking.json", "data-sources.json",
      "salesforce-integration.json">>

\* positions (from 1) at which fragment f occurs in s
Occurrences(s, f) ==
    {i \in 1..(Len(s) - Len(f) + 1) : SubSeq(s, i, i + Len(f) - 1) = f}

\* ranks, in the fixed order, of the fragments the slug contains
MatchingFragments == {k \in 1..3 : Occurrences(slug, FragmentOrder[k]) # {}}

\* C16: the file selected is the one of the earliest fragment, in the order
\* relevance-ranking, data-sources, salesforce, that the slug contains as a
\* substring, wherever the fragments occur in the slug, and none when the
\* slug contains no fragment; the slug alone determines the selection.
C16_FirstFragmentInOrderSelects ==
    pc = "done" =>
        /\ MatchingFragments = {} => mockFile = <<>>
        /\ MatchingFragments # {} =>
              \E k \in MatchingFragments :
                  /\ \A j \in MatchingFragments : k <= j
                  /\ mockFile = <<FileOrder[k]>>

\* C16 witness: the slug contains salesforce and, further right,
\* relevance-ranking; the relevance-ranking file is selected.
C16_Witness ==
    /\ pc = "done"
    /\ \E i \in Occurrences(slug, FragSalesforce) :
           \A j \in Occurrences(slug, FragRelevanceRanking) : i < j
    /\ Occurrences(slug, FragRelevanceRanking) # {}
    /\ mockFile = <<"relevance-ranking.json">>

IsUpper(c) == \E k \in 1..26 : UpperCaseLetters[k] = c

IsLower(c) == \E k \in 1..26 : LowerCaseLetters[k] = c

\* letters and digits of a query, the ones the slug keeps
IsAlnum(c) == IsUpper(c) \/ IsLower(c) \/ IsDigit(c)

LowerOf(c) ==
    IF IsUpper(c)
    THEN LowerCaseLetters[CHOOSE k \in 1..26 : UpperCaseLetters[k] = c]
    ELSE c

\* the letters and digits of q from position i on, lower-cased, with one
\* separator wherever other characters lie between two of them; prev is the
\* position of the letter or digit seen last, 0 for none
RECURSIVE JoinedFrom(_, _, _)
JoinedFrom(q, i, prev) ==
    IF i > Len(q) THEN <<>>
    ELSE IF IsAlnum(q[i])
         THEN (IF prev # 0 /\ prev < i - 1 THEN <<"-">> ELSE <<>>)
                  \o <<LowerOf(q[i])>> \o JoinedFrom(q, i + 1, i)
         ELSE JoinedFrom(q, i + 1, prev)

\* C17: the slug has only a-z, digits and '-', no two '-' in a row and no
\* '-' at either end; it is the letters and digits of the query, lower-cased
\* and in order, with exactly one '-' for every maximal run of other
\* characters between two of them; the slug of a slug is that slug.
C17_SlugShape ==
    pc = "done" =>
        /\ \A i \in 1..Len(slug) :
               IsLower(slug[i]) \/ IsDigit(slug[i]) \/ slug[i] = "-"
        /\ \A i \in 1..(Len(slug) - 1) : ~(slug[i] = "-" /\ slug[i + 1] = "-")
        /\ slug # <<>> => (slug[1] # "-" /\ slug[Len(slug)] # "-")
        /\ slug = JoinedFrom(query, 1, 0)
        /\ Slug(slug) = slug

\* C17 witness: a query that ends with other characters and has a run of
\* two of them inside has been slugged to "a-1".
C17_Witness ==
    /\ pc = "done"
    /\ query = <<"A", " ", "-", "1", "?">>
    /\ slug = <<"a", "-", "1">>

============================================================================
